---- MODULE Spec2Model ----
(***************************************************************************)
(* Model of dashboard.py: a table loaded once (df), two filter controls    *)
(* (age-range, location-filter) and the callback update_graphs, which      *)
(* filters the table, aggregates it per location, reshapes the aggregate   *)
(* into long form and returns four figures.                                *)
(*                                                                         *)
(* A data frame is a sequence of rows; every row carries its index label   *)
(* (idx, the RangeIndex read_csv assigns) and the columns the pipeline     *)
(* reads.  A figure is modelled by its chart kind and the data frame it    *)
(* was built from.  A mean is an exact fraction in lowest terms; the mean  *)
(* of no values is NaN.                                                    *)
(***************************************************************************)
EXTENDS Integers, Sequences, FiniteSets, TLC

\* ---- bounds ----
MaxRows == 3
MaxAge == 3
MaxScore == 2

Ages == 1..MaxAge
Scores == 1..MaxScore
Locations == {"LA", "NY"}
\* the location labels in ascending (lexicographic) order
SortedLocations == <<"LA", "NY">>

VARIABLES df, age_range, locations, pc,
          filtered_df, grouped_location_df, melted_location_df, figures

vars == <<df, age_range, locations, pc,
          filtered_df, grouped_location_df, melted_location_df, figures>>

\* ---- helpers ----
RECURSIVE GCD(_, _)
GCD(a, b) == IF b = 0 THEN a ELSE GCD(b, a % b)

RECURSIVE SeqSum(_)
SeqSum(s) == IF s = <<>> THEN 0 ELSE Head(s) + SeqSum(Tail(s))

NaN == [num |-> 0, den |-> 0]

\* variant: floor division instead of true division
Mean_floor(xs) ==
    IF Len(xs) = 0 THEN NaN
    ELSE [num |-> SeqSum(xs) \div Len(xs), den |-> 1]

\* pandas 'mean': sum of the values over their count; NaN for no values
Mean(xs) ==
    IF Len(xs) = 0 THEN NaN
    ELSE LET s == SeqSum(xs)
             n == Len(xs)
             g == GCD(s, n)
         IN [num |-> s \div g, den |-> n \div g]

\* column of a frame as a sequence
Column(frame, name) == [i \in 1..Len(frame) |-> frame[i][name]]

\* Series.min() / Series.max() of a non-empty integer column
SeriesMin(col) == CHOOSE m \in {col[i] : i \in DOMAIN col} :
                     \A i \in DOMAIN col : m <= col[i]
SeriesMax(col) == CHOOSE m \in {col[i] : i \in DOMAIN col} :
                     \A i \in DOMAIN col : m >= col[i]

\* Series.unique(): the distinct values (handed to the dropdown as its value)
Unique(col) == {col[i] : i \in DOMAIN col}

\* variant: an empty selection is read as "no restriction"
IsIn_emptyall(col, values) ==
    [i \in 1..Len(col) |-> values = {} \/ col[i] \in values]

\* Series.isin(values): one boolean per row
IsIn(col, values) == [i \in 1..Len(col) |-> col[i] \in values]

\* variant: the selected rows come out in reverse order
RECURSIVE BoolIndex_rev(_, _)
BoolIndex_rev(frame, mask) ==
    IF frame = <<>> THEN <<>>
    ELSE BoolIndex_rev(Tail(frame), Tail(mask))
         \o (IF Head(mask) THEN <<Head(frame)>> ELSE <<>>)

\* frame[mask]: the rows whose mask entry is True, in frame order
RECURSIVE BoolIndex(_, _)
BoolIndex(frame, mask) ==
    IF frame = <<>> THEN <<>>
    ELSE (IF Head(mask) THEN <<Head(frame)>> ELSE <<>>)
         \o BoolIndex(Tail(frame), Tail(mask))

\* variant: the upper age bound is exclusive
Filter_strict_upper(frame, range, locs) ==
    LET mask == [i \in 1..Len(frame) |->
                    /\ frame[i].Age >= range[1]
                    /\ frame[i].Age < range[2]
                    /\ frame[i].Location \in locs]
    IN SelectSeq(frame, LAMBDA r : mask[r.idx + 1])

\* variant: the lower age bound is exclusive
Filter_strict_lower(frame, range, locs) ==
    LET mask == [i \in 1..Len(frame) |->
                    /\ frame[i].Age > range[1]
                    /\ frame[i].Age <= range[2]
                    /\ frame[i].Location \in locs]
    IN SelectSeq(frame, LAMBDA r : mask[r.idx + 1])

\* lines 162-166: df[(Age >= lo) & (Age <= hi) & Location.isin(locations)]
Filter(frame, range, locs) ==
    LET age  == Column(frame, "Age")
        ge   == [i \in 1..Len(frame) |-> age[i] >= range[1]]
        le   == [i \in 1..Len(frame) |-> age[i] <= range[2]]
        isin == IsIn(Column(frame, "Location"), locs)
        mask == [i \in 1..Len(frame) |-> ge[i] /\ le[i] /\ isin[i]]
    IN BoolIndex(frame, mask)

\* variant: one group per known label, observed in the frame or not
GroupKeys_all(frame) == SortedLocations

\* groupby('Location') keys: the labels present in the frame, sorted
GroupKeys(frame) ==
    SelectSeq(SortedLocations, LAMBDA l : l \in Unique(Column(frame, "Location")))

\* the rows of one group
Group(frame, key) == SelectSeq(frame, LAMBDA r : r.Location = key)

\* lines 193-196: groupby('Location', as_index=False).agg(mean, mean)
GroupByLocation(frame) ==
    LET keys == GroupKeys(frame)
    IN [k \in 1..Len(keys) |->
          [Location |-> keys[k],
           Avg_Satisfaction_Score |->
               Mean(Column(Group(frame, keys[k]), "Satisfaction_Score")),
           Avg_Feedback_Score |->
               Mean(Column(Group(frame, keys[k]), "Feedback_Score"))]]

\* variant: every block carries the satisfaction mean
MeltBlock_sat(frame, var) ==
    [i \in 1..Len(frame) |->
        [Location |-> frame[i].Location,
         Metric |-> var,
         Average_Score |-> frame[i].Avg_Satisfaction_Score]]

\* one block of melt: the id column with one value column
MeltBlock(frame, var) ==
    [i \in 1..Len(frame) |->
        [Location |-> frame[i].Location,
         Metric |-> var,
         Average_Score |-> frame[i][var]]]

\* lines 197-202: melt(id_vars='Location', value_vars=[sat, fb])
Melt(frame) ==
    MeltBlock(frame, "Avg_Satisfaction_Score")
    \o MeltBlock(frame, "Avg_Feedback_Score")

\* a plotly express figure: its chart kind and the frame it was given
Figure(kind, frame) == [chart |-> kind, data_frame |-> frame]

\* variant: the animated scatter is built from the whole table
Figures_stale(rows, melted) ==
    [satisfaction_dist |-> Figure("pie", rows),
     age_satisfaction  |-> Figure("scatter_3d", rows),
     location_analysis |-> Figure("bar", melted),
     products_analysis |-> Figure("scatter", df)]

\* the four figures built from a row frame and a long-form frame
Figures(rows, melted) ==
    [satisfaction_dist |-> Figure("pie", rows),
     age_satisfaction  |-> Figure("scatter_3d", rows),
     location_analysis |-> Figure("bar", melted),
     products_analysis |-> Figure("scatter", rows)]

\* lines 18-73: the figures built at module load from the whole table
InitialFigures(table) == Figures(table, Melt(GroupByLocation(table)))

\* variant: the slider's default upper handle stops one short of the maximum
DefaultAgeRange_excl(table) ==
    <<SeriesMin(Column(table, "Age")), SeriesMax(Column(table, "Age")) - 1>>

\* lines 91-109: control defaults
DefaultAgeRange(table) ==
    <<SeriesMin(Column(table, "Age")), SeriesMax(Column(table, "Age"))>>
DefaultLocations(table) == Unique(Column(table, "Location"))

\* ---- tables read_csv can produce ----
\* the sample tables: the age and the location of every row range over all
\* values; the satisfaction column cycles through the scores and the feedback
\* column runs opposite to it
RowValues == [Age : Ages, Location : Locations]

WithIndex(vals) ==
    [i \in 1..Len(vals) |->
        LET s == 1 + ((i - 1) % MaxScore)
        IN [idx |-> i - 1,
            Age |-> vals[i].Age,
            Location |-> vals[i].Location,
            Satisfaction_Score |-> s,
            Feedback_Score |-> MaxScore + 1 - s]]

Tables == UNION {{WithIndex(v) : v \in [1..n -> RowValues]} : n \in 1..MaxRows}

\* ---- state machine ----
Init ==
    /\ df \in Tables
    /\ age_range = DefaultAgeRange(df)
    /\ locations = DefaultLocations(df)
    /\ pc = "loaded"
    /\ filtered_df = <<>>
    /\ grouped_location_df = <<>>
    /\ melted_location_df = <<>>
    /\ figures = InitialFigures(df)

\* variant: the filtered frame is assigned back to the table
update_graphs_inplace(range, locs) ==
    /\ filtered_df' = Filter(df, range, locs)
    /\ grouped_location_df' = GroupByLocation(filtered_df')
    /\ melted_location_df' = Melt(grouped_location_df')
    /\ figures' = Figures(filtered_df', melted_location_df')
    /\ df' = filtered_df'

\* lines 161-224: the callback body for given input values
update_graphs(range, locs) ==
    /\ filtered_df' = Filter(df, range, locs)
    /\ grouped_location_df' = GroupByLocation(filtered_df')
    /\ melted_location_df' = Melt(grouped_location_df')
    /\ figures' = Figures(filtered_df', melted_location_df')
    /\ UNCHANGED df

\* the callback fired once when the page is first rendered
initial_call ==
    /\ pc = "loaded"
    /\ pc' = "ready"
    /\ UNCHANGED <<age_range, locations>>
    /\ update_graphs(age_range, locations)

\* the user moves the range slider
age_range_changed(lo, hi) ==
    /\ pc = "ready"
    /\ lo <= hi
    /\ <<lo, hi>> # age_range
    /\ age_range' = <<lo, hi>>
    /\ UNCHANGED <<locations, pc>>
    /\ update_graphs(age_range', locations)

\* the user changes the dropdown selection
location_filter_changed(sel) ==
    /\ pc = "ready"
    /\ sel # locations
    /\ locations' = sel
    /\ UNCHANGED <<age_range, pc>>
    /\ update_graphs(age_range, locations')

SliderValues == SeriesMin(Column(df, "Age"))..SeriesMax(Column(df, "Age"))
DropdownOptions == Unique(Column(df, "Location"))

Next ==
    \/ initial_call
    \/ \E lo \in SliderValues, hi \in SliderValues : age_range_changed(lo, hi)
    \/ \E sel \in SUBSET DropdownOptions : location_filter_changed(sel)

Spec == Init /\ [][Next]_vars

TypeOK ==
    /\ df \in Tables
    /\ pc \in {"loaded", "ready"}
    /\ locations \subseteq Locations

\* ---- vocabulary of the properties ----
RowSet(frame) == {frame[i] : i \in DOMAIN frame}

\* the two filter predicates on a record
MatchesIn(r, range, locs) ==
    /\ range[1] <= r.Age
    /\ r.Age <= range[2]
    /\ r.Location \in locs

Matches(r) == MatchesIn(r, age_range, locations)

\* positions of the source rows of one location that satisfy both predicates
MatchingAt(loc) == {i \in DOMAIN df : Matches(df[i]) /\ df[i].Location = loc}

RECURSIVE ColSumOver(_, _)
ColSumOver(is, name) ==
    IF is = {} THEN 0
    ELSE LET i == CHOOSE j \in is : TRUE
         IN df[i][name] + ColSumOver(is \ {i}, name)

\* fraction f equals total / count
IsQuotient(f, total, count) ==
    /\ count > 0
    /\ f.den > 0
    /\ f.num * count = total * f.den

PresentLocations == {r.Location : r \in RowSet(filtered_df)}

\* ---- properties ----

\* C1: the filtered subset holds a record of the table if and only if the
\* record's age lies in [age_min, age_max], both ends included, and its
\* location is one of the selected locations; it holds nothing else.
C1_FilterSoundComplete ==
    pc = "ready" =>
        /\ RowSet(filtered_df) \subseteq RowSet(df)
        /\ \A r \in RowSet(df) : r \in RowSet(filtered_df) <=> Matches(r)

\* age_min = age_max, with one record kept, one dropped for its age and one
\* dropped for its location
C1_Witness ==
    /\ pc = "ready"
    /\ age_range[1] = age_range[2]
    /\ filtered_df # <<>>
    /\ \E r \in RowSet(df) : r.Location \in locations /\ r.Age # age_range[1]
    /\ \E r \in RowSet(df) : r.Location \notin locations /\ r.Age = age_range[1]

\* C2: the filter is stable: two records of the subset stand in the order they
\* have in the table, and no record occurs more often than in the table.
C2_FilterStable ==
    pc = "ready" =>
        /\ \A i \in DOMAIN filtered_df :
              /\ filtered_df[i].idx + 1 \in DOMAIN df
              /\ df[filtered_df[i].idx + 1] = filtered_df[i]
        /\ \A i, j \in DOMAIN filtered_df :
              (i < j) <=> (filtered_df[i].idx < filtered_df[j].idx)

\* the first and the last record of a three-record table kept, the middle
\* one dropped
C2_Witness ==
    /\ pc = "ready"
    /\ Len(df) >= 3
    /\ Len(filtered_df) = 2
    /\ filtered_df[1] = df[1]
    /\ filtered_df[2] = df[3]

\* C3: with age_min the least age, age_max the greatest age and every distinct
\* location selected, the subset is the whole table in the same order.
C3_FullRangeIsIdentity ==
    ( /\ pc = "ready"
      /\ \A r \in RowSet(df) : age_range[1] <= r.Age /\ r.Age <= age_range[2]
      /\ \E r \in RowSet(df) : r.Age = age_range[1]
      /\ \E r \in RowSet(df) : r.Age = age_range[2]
      /\ locations = {r.Location : r \in RowSet(df)} )
    => filtered_df = df

\* the default values on a table with several ages and several locations
C3_Witness ==
    /\ pc = "ready"
    /\ Len(df) >= 3
    /\ age_range[1] < age_range[2]
    /\ \A r \in RowSet(df) : age_range[1] <= r.Age /\ r.Age <= age_range[2]
    /\ \E r \in RowSet(df) : r.Age = age_range[1]
    /\ \E r \in RowSet(df) : r.Age = age_range[2]
    /\ locations = {r.Location : r \in RowSet(df)}
    /\ Cardinality(locations) >= 2
    /\ filtered_df = df

\* C4: the aggregate has exactly one entry for each location that has a row in
\* the subset and none for any other location; no entry carries a NaN mean.
C4_AggregateLocations ==
    pc = "ready" =>
        /\ {grouped_location_df[k].Location : k \in DOMAIN grouped_location_df}
              = PresentLocations
        /\ Len(grouped_location_df) = Cardinality(PresentLocations)
        /\ \A k \in DOMAIN grouped_location_df :
              /\ grouped_location_df[k].Avg_Satisfaction_Score # NaN
              /\ grouped_location_df[k].Avg_Feedback_Score # NaN

\* a selected location that has rows in the table, all outside the age range,
\* while another location is present
C4_Witness ==
    /\ pc = "ready"
    /\ grouped_location_df # <<>>
    /\ \E l \in locations :
          /\ \E r \in RowSet(df) : r.Location = l
          /\ l \notin PresentLocations
          /\ \A k \in DOMAIN grouped_location_df :
                grouped_location_df[k].Location # l

\* C5: each aggregate entry's satisfaction mean is the sum of satisfaction_score
\* over the table's rows of that location that pass the filter, divided by
\* their number; likewise the feedback mean.
C5_MeansAreArithmetic ==
    pc = "ready" =>
        \A k \in DOMAIN grouped_location_df :
            LET e  == grouped_location_df[k]
                is == MatchingAt(e.Location)
            IN /\ IsQuotient(e.Avg_Satisfaction_Score,
                             ColSumOver(is, "Satisfaction_Score"),
                             Cardinality(is))
               /\ IsQuotient(e.Avg_Feedback_Score,
                             ColSumOver(is, "Feedback_Score"),
                             Cardinality(is))

\* a location with two rows of different scores in the subset (a fractional
\* mean) and a third row of that location outside the age range
C5_Witness ==
    /\ pc = "ready"
    /\ \E k \in DOMAIN grouped_location_df :
          LET e == grouped_location_df[k]
          IN /\ e.Avg_Satisfaction_Score.den = 2
             /\ Cardinality(MatchingAt(e.Location)) = 2
             /\ \E r \in RowSet(df) : r.Location = e.Location /\ ~Matches(r)

\* the value column a metric tag names
ScoreColumn(metric) ==
    IF metric = "Avg_Satisfaction_Score" THEN "Satisfaction_Score"
    ELSE "Feedback_Score"

\* C6: the long-form series holds, for each location of the aggregate, exactly
\* two records: one tagged with the satisfaction metric carrying the
\* satisfaction mean and one tagged with the feedback metric carrying the
\* feedback mean; 2 x (number of locations) records, no (location, metric)
\* pair twice.
C6_TidyTwoPerLocation ==
    pc = "ready" =>
        /\ Len(melted_location_df) = 2 * Len(grouped_location_df)
        /\ \A i \in DOMAIN melted_location_df :
              melted_location_df[i].Metric
                  \in {"Avg_Satisfaction_Score", "Avg_Feedback_Score"}
        /\ \A i, j \in DOMAIN melted_location_df :
              ( /\ melted_location_df[i].Location = melted_location_df[j].Location
                /\ melted_location_df[i].Metric = melted_location_df[j].Metric )
              => i = j
        /\ \A k \in DOMAIN grouped_location_df :
              LET e == grouped_location_df[k]
              IN /\ \E i \in DOMAIN melted_location_df :
                       melted_location_df[i] =
                           [Location |-> e.Location,
                            Metric |-> "Avg_Satisfaction_Score",
                            Average_Score |-> e.Avg_Satisfaction_Score]
                 /\ \E i \in DOMAIN melted_location_df :
                       melted_location_df[i] =
                           [Location |-> e.Location,
                            Metric |-> "Avg_Feedback_Score",
                            Average_Score |-> e.Avg_Feedback_Score]

\* two locations in the aggregate, one of them with different satisfaction
\* and feedback means
C6_Witness ==
    /\ pc = "ready"
    /\ Len(grouped_location_df) = 2
    /\ Len(melted_location_df) = 4
    /\ \E k \in DOMAIN grouped_location_df :
          grouped_location_df[k].Avg_Satisfaction_Score
              # grouped_location_df[k].Avg_Feedback_Score

FigureNames ==
    {"satisfaction_dist", "age_satisfaction", "location_analysis",
     "products_analysis"}

C8_SourceImmutable ==
    [][ /\ df' = df
        /\ RowSet(filtered_df') =
               {r \in RowSet(df) : MatchesIn(r, age_range', locations')} ]_vars

\* an event has left a non-empty subset that is smaller than the table
C8_Witness ==
    /\ pc = "ready"
    /\ filtered_df # <<>>
    /\ Len(filtered_df) < Len(df)
    /\ df \in Tables

\* C9: once an event's recomputation is done, all four figures show the
\* subset of the current control values: the three row charts hold exactly the
\* matching rows of the table in table order, and the bar chart holds the two
\* means of exactly the locations that have a matching row.
C9_FiguresFollowControls ==
    pc = "ready" =>
        LET subset == SelectSeq(df, LAMBDA r : Matches(r))
            bar == figures.location_analysis.data_frame
        IN /\ DOMAIN figures = FigureNames
           /\ figures.satisfaction_dist.data_frame = subset
           /\ figures.age_satisfaction.data_frame = subset
           /\ figures.products_analysis.data_frame = subset
           /\ {bar[i].Location : i \in DOMAIN bar}
                 = {r.Location : r \in RowSet(subset)}
           /\ Len(bar) = 2 * Cardinality({r.Location : r \in RowSet(subset)})
           /\ \A i \in DOMAIN bar :
                 IsQuotient(bar[i].Average_Score,
                            ColSumOver(MatchingAt(bar[i].Location),
                                       ScoreColumn(bar[i].Metric)),
                            Cardinality(MatchingAt(bar[i].Location)))

\* both controls have been moved off their defaults and rows remain
C9_Witness ==
    /\ pc = "ready"
    /\ age_range # DefaultAgeRange(df)
    /\ locations # DefaultLocations(df)
    /\ figures.satisfaction_dist.data_frame # <<>>
    /\ figures.satisfaction_dist.data_frame # df

\* C10: before any event, the displayed figures are the ones update_graphs
\* builds for the controls' default values, and the controls hold those
\* defaults.
C10_InitialFiguresMatchDefaults ==
    pc = "loaded" =>
        LET rows == Filter(df, DefaultAgeRange(df), DefaultLocations(df))
            melted == Melt(GroupByLocation(rows))
        IN /\ age_range = DefaultAgeRange(df)
           /\ locations = DefaultLocations(df)
           /\ figures = Figures(rows, melted)

\* the page just loaded over a table with several ages and locations
C10_Witness ==
    /\ pc = "loaded"
    /\ Len(df) >= 3
    /\ age_range[1] < age_range[2]
    /\ Cardinality(locations) >= 2
    /\ figures.products_analysis.data_frame = df
====
